---- MODULE Spec2Model ----
(***************************************************************************)
(* Model of rllib/core/models/catalog.py: the Catalog class, its encoder   *)
(* config resolver, tokenizer config resolver and action distribution      *)
(* resolver.                                                               *)
(*                                                                         *)
(* Python values are modelled as follows.                                  *)
(*   - a dict is a function from key strings to values; a key the caller   *)
(*     did not supply is absent from the function's domain;                *)
(*   - an Optional value is a sequence of length at most one: None is      *)
(*     <<>> and the value v is <<v>>;                                      *)
(*   - a gym space is a record [kind, shape, dtype];                       *)
(*   - a call's outcome is a record whose field kind is "raise" for an     *)
(*     exception and the name of the returned class otherwise.             *)
(***************************************************************************)
EXTENDS Integers, Sequences, FiniteSets, TLC

VARIABLES
    MODEL_DEFAULTS,     \* the process-wide defaults table
    observation_space,  \* the caller's observation space
    action_space,       \* the caller's action space
    model_config_dict,  \* the caller's own (possibly partial) config dict
    view_requirements,  \* the caller's view requirements (opaque)
    deterministic,      \* the caller's deterministic flag
    catalog,            \* the Catalog instance, NoCatalog before construction
    ret,                \* outcome of the last call
    tokenizer           \* progress of the tokenizer resolution

vars == <<MODEL_DEFAULTS, observation_space, action_space, model_config_dict,
          view_requirements, deterministic, catalog, ret, tokenizer>>

----------------------------------------------------------------------------
(* Bounds *)

MaxRank == 4        \* spaces have shapes of 0..MaxRank dimensions
MaxHiddens == 2     \* fcnet_hiddens has 0..MaxHiddens entries
MaxDepth == 3       \* cap on nested tokenizer resolutions that are followed

----------------------------------------------------------------------------
(* Python values *)

None == <<>>
Some(v) == <<v>>

\* Python truthiness of an Optional[int]: None and 0 are falsy.
TruthyInt(x) == x # None /\ x[1] # 0

\* Python truthiness of an Optional[list]: None and [] are falsy.
TruthyList(x) == x # None /\ x[1] # <<>>

\* {**base, **override}: a new dict, override wins on key collision.
Merge(base, override) == override @@ base

\* d[key] = value on a dict object: overwrites or adds the key.
SetItem(d, key, value) == (key :> value) @@ d

Raise(error, msg) == [kind |-> "raise", error |-> error, msg |-> msg]

Raised(r) == r.kind = "raise"

----------------------------------------------------------------------------
(* Spaces *)

Box(shape, dtype) == [kind |-> "Box", shape |-> shape, dtype |-> dtype]
Space(kind) == [kind |-> kind, shape |-> <<>>, dtype |-> "none"]

NoneSpace == Space("None")

\* numpy dtype.char of the dtypes used
DtypeChar(dtype) ==
    CASE dtype = "float16" -> "e"
      [] dtype = "float32" -> "f"
      [] dtype = "float64" -> "d"
      [] dtype = "int8"    -> "b"
      [] dtype = "int32"   -> "i"
      [] dtype = "int64"   -> "l"
      [] dtype = "uint8"   -> "B"
      [] OTHER             -> "?"

\* np.typecodes["AllInteger"] == "bBhHiIlLqQpP"
AllInteger == {"b", "B", "h", "H", "i", "I", "l", "L", "q", "Q", "p", "P"}

----------------------------------------------------------------------------
(* External collaborators *)

\* ray.rllib.models.MODEL_DEFAULTS, the keys this module reads
DefaultsTable ==
    [ fcnet_hiddens      |-> <<256, 256>>,
      fcnet_activation   |-> "tanh",
      conv_filters       |-> None,
      use_lstm           |-> FALSE,
      use_attention      |-> FALSE,
      lstm_cell_size     |-> 256,
      _time_major        |-> FALSE,
      encoder_latent_dim |-> None ]

\* ray.rllib.models.utils.get_filter_config: a filter list derived from shape
get_filter_config(shape) ==
    << <<16, <<8, 8>>, 4>>,
       <<32, <<4, 4>>, 2>>,
       <<256, <<(shape[1] \div 8) + 1, (shape[2] \div 8) + 1>>, 1>> >>

----------------------------------------------------------------------------
(* Catalog.get_encoder_config *)

\* isinstance(observation_space, Box) and len(observation_space.shape) == 1
IsBox1D(space) == space.kind = "Box" /\ Len(space.shape) = 1

\* faulty variant of IsBox3D: accepts every Box of three or more dimensions
IsBox3D_wide(space) == space.kind = "Box" /\ Len(space.shape) >= 3

\* isinstance(observation_space, Box) and len(observation_space.shape) == 3
IsBox3D(space) == space.kind = "Box" /\ Len(space.shape) = 3

\* model_config_dict["encoder_latent_dim"] or fcnet_hiddens[-1]:
\* fcnet_hiddens[-1] is evaluated only when the left operand is falsy, and
\* raises IndexError on an empty list.
LatentDimRaises(cfg) ==
    ~TruthyInt(cfg["encoder_latent_dim"]) /\ cfg["fcnet_hiddens"] = <<>>

encoder_latent_dim(cfg) ==
    IF TruthyInt(cfg["encoder_latent_dim"])
    THEN cfg["encoder_latent_dim"][1]
    ELSE cfg["fcnet_hiddens"][Len(cfg["fcnet_hiddens"])]

\* faulty variant of hidden_layer_dims: the legacy truncation is dropped
hidden_layer_dims_verbatim(cfg) == cfg["fcnet_hiddens"]

\* the legacy rule: fcnet_hiddens, or fcnet_hiddens[:-1] when no latent dim
hidden_layer_dims(cfg) ==
    IF TruthyInt(cfg["encoder_latent_dim"])
    THEN cfg["fcnet_hiddens"]
    ELSE SubSeq(cfg["fcnet_hiddens"], 1, Len(cfg["fcnet_hiddens"]) - 1)

LSTMEncoderConfig(cfg, obs, act, vr) ==
    [ kind                   |-> "LSTMEncoderConfig",
      hidden_dim             |-> cfg["lstm_cell_size"],
      batch_first            |-> ~cfg["_time_major"],
      num_layers             |-> 1,
      output_dim             |-> cfg["lstm_cell_size"],
      output_activation      |-> cfg["fcnet_activation"],
      observation_space      |-> obs,
      action_space           |-> act,
      view_requirements_dict |-> vr,
      get_tokenizer_config   |-> "Catalog.get_tokenizer_config" ]

MLPEncoderConfig(cfg, obs) ==
    [ kind                    |-> "MLPEncoderConfig",
      input_dim               |-> obs.shape[1],
      hidden_layer_dims       |-> hidden_layer_dims(cfg),
      hidden_layer_activation |-> cfg["fcnet_activation"],
      output_dim              |-> encoder_latent_dim(cfg),
      output_activation       |-> cfg["fcnet_activation"] ]

CNNEncoderConfig(cfg, obs) ==
    [ kind                    |-> "CNNEncoderConfig",
      input_dims              |-> obs.shape,
      filter_specifiers       |-> cfg["conv_filters"][1],
      filter_layer_activation |-> cfg["fcnet_activation"],
      output_activation       |-> cfg["fcnet_activation"],
      output_dim              |-> encoder_latent_dim(cfg) ]

\* A frame holds the three dict objects a get_encoder_config call can reach:
\* local (the merged copy bound to the name model_config_dict inside the
\* call), arg (the dict object the caller passed) and defaults (the global
\* table), plus the call's outcome.
\* faulty variant of StoreConvFilters: the write also reaches the caller's dict
StoreConvFilters_inplace(frame, filters) ==
    [frame EXCEPT !.arg = SetItem(@, "conv_filters", Some(filters)),
                  !.local = SetItem(@, "conv_filters", Some(filters))]

\* model_config_dict["conv_filters"] = get_filter_config(...): the name
\* model_config_dict is bound to the local merged copy at this point.
StoreConvFilters(frame, filters) ==
    [frame EXCEPT !.local = SetItem(@, "conv_filters", Some(filters))]

get_encoder_config(obs, cfgArg, act, vr) ==
    LET entry == [ local    |-> Merge(MODEL_DEFAULTS, cfgArg),
                   arg      |-> cfgArg,
                   defaults |-> MODEL_DEFAULTS,
                   ret      |-> [kind |-> "none"] ]
        cfg == entry.local
    IN  IF LatentDimRaises(cfg)
        THEN [entry EXCEPT !.ret = Raise("IndexError", "list index out of range")]
        ELSE IF cfg["use_lstm"]
        THEN [entry EXCEPT !.ret = LSTMEncoderConfig(cfg, obs, act, vr)]
        ELSE IF cfg["use_attention"]
        THEN [entry EXCEPT !.ret = Raise("NotImplementedError", "")]
        ELSE IF IsBox1D(obs)
        THEN [entry EXCEPT !.ret = MLPEncoderConfig(cfg, obs)]
        ELSE IF IsBox3D(obs)
        THEN LET stored == IF ~TruthyList(cfg["conv_filters"])
                           THEN StoreConvFilters(entry, get_filter_config(obs.shape))
                           ELSE entry
             IN  [stored EXCEPT !.ret = CNNEncoderConfig(stored.local, obs)]
        ELSE [entry EXCEPT !.ret =
                 Raise("NotImplementedError",
                       "No default config for complex spaces yet!")]

----------------------------------------------------------------------------
(* Catalog.get_tokenizer_config *)

\* faulty variant of TokenizerModelConfig: use_lstm is not forced off
TokenizerModelConfig_attention_only(cfg) ==
    Merge(cfg, [use_attention |-> FALSE])

\* {**model_config_dict, **{"use_lstm": False, "use_attention": False}}
TokenizerModelConfig(cfg) ==
    Merge(cfg, [use_lstm |-> FALSE, use_attention |-> FALSE])

\* The frame returned is the inner get_encoder_config call's, except that arg
\* is the dict the caller of get_tokenizer_config passed: the inner call's own
\* argument is the fresh dict built here, kept under passed.
get_tokenizer_config(space, cfgArg) ==
    LET passed == TokenizerModelConfig(cfgArg)
        inner  == get_encoder_config(space, passed, NoneSpace, None)
    IN  [ ret      |-> inner.ret,
          local    |-> inner.local,
          passed   |-> inner.arg,
          arg      |-> cfgArg,
          defaults |-> inner.defaults ]

----------------------------------------------------------------------------
(* Catalog.get_action_dist_cls_dict *)

distribution_dicts ==
    [ deterministic |-> [torch |-> "TorchDeterministic", tf |-> "TfDeterministic"],
      gaussian      |-> [torch |-> "TorchDiagGaussian", tf |-> "TfDiagGaussian"],
      categorical   |-> [torch |-> "TorchCategorical", tf |-> "TfCategorical"] ]

\* faulty variant of IsAllInteger: unsigned integer dtypes are let through
IsAllInteger_signed_only(dtype) == DtypeChar(dtype) \in {"b", "h", "i", "l", "q", "p"}

\* action_space.dtype.char in np.typecodes["AllInteger"]
IsAllInteger(dtype) == DtypeChar(dtype) \in AllInteger

\* len(action_space.shape) > 1
MultipleDimensions(shape) == Len(shape) > 1

\* faulty variant of BoxFamily: the test on deterministic is inverted
BoxFamily_inverted(det) == IF det THEN "gaussian" ELSE "deterministic"

\* if deterministic: "deterministic" else: "gaussian"
BoxFamily(det) == IF det THEN "deterministic" ELSE "gaussian"

Return(value) == [kind |-> "return", value |-> value]

get_action_dist_cls_dict(act, det) ==
    IF act.kind = "Box"
    THEN IF IsAllInteger(act.dtype)
         THEN Raise("ValueError", "Box int action spaces are not supported.")
         ELSE IF MultipleDimensions(act.shape)
         THEN Raise("UnsupportedSpaceException", "Action space has multiple dimensions")
         ELSE Return(distribution_dicts[BoxFamily(det)])
    ELSE IF act.kind = "Discrete"
    THEN Return(distribution_dicts["categorical"])
    ELSE IF act.kind \in {"Tuple", "Dict"}
    THEN Raise("NotImplementedError", "Tuple/Dict spaces not yet supported.")
    ELSE IF act.kind = "Simplex"
    THEN Raise("NotImplementedError", "Simplex action space not yet supported.")
    ELSE IF act.kind = "MultiDiscrete"
    THEN Raise("NotImplementedError", "MultiDiscrete spaces not yet supported.")
    ELSE Raise("NotImplementedError", "Unsupported action space")

----------------------------------------------------------------------------
(* Catalog.__init__, build_encoder, get_action_dist_cls *)

NoCatalog == [kind |-> "NoCatalog"]

\* faulty variant of LatentDim: re-derived from the config dict
LatentDim_from_config(encoder_config, cfg) == encoder_latent_dim(cfg)

\* self.latent_dim = self.encoder_config.output_dim
LatentDim(encoder_config, cfg) == encoder_config.output_dim

Instance(obs, act, merged, vr, enc, dist) ==
    [ kind                 |-> "Catalog",
      observation_space    |-> obs,
      action_space         |-> act,
      model_config_dict    |-> merged,
      view_requirements    |-> vr,
      encoder_config       |-> enc,
      action_dist_cls_dict |-> dist,
      latent_dim           |-> LatentDim(enc, merged) ]

\* The outcome of a construction: the instance (NoCatalog when __init__
\* raised), the error and the resolver it came from, and the dict objects
\* after the call.
Outcome(instance, out, raised_in, frame) ==
    [ instance  |-> instance,
      out       |-> out,
      raised_in |-> raised_in,
      arg       |-> frame.arg,
      defaults  |-> frame.defaults ]

\* faulty variant of Catalog__init__: the action distribution is resolved first
Catalog__init___dist_first(obs, act, cfgArg, vr) ==
    LET merged == Merge(MODEL_DEFAULTS, cfgArg)
        dist   == get_action_dist_cls_dict(act, FALSE)
        enc    == get_encoder_config(obs, cfgArg, act, vr)
    IN  IF Raised(dist)
        THEN Outcome(NoCatalog, dist, "get_action_dist_cls_dict",
                     [arg |-> cfgArg, defaults |-> MODEL_DEFAULTS])
        ELSE IF Raised(enc.ret)
        THEN Outcome(NoCatalog, enc.ret, "get_encoder_config", enc)
        ELSE Outcome(Instance(obs, act, merged, vr, enc.ret, dist.value),
                     [kind |-> "Catalog"], "none", enc)

Catalog__init__(obs, act, cfgArg, vr) ==
    LET merged == Merge(MODEL_DEFAULTS, cfgArg)
        enc    == get_encoder_config(obs, cfgArg, act, vr)
        dist   == get_action_dist_cls_dict(act, FALSE)
    IN  IF Raised(enc.ret)
        THEN Outcome(NoCatalog, enc.ret, "get_encoder_config", enc)
        ELSE IF Raised(dist)
        THEN Outcome(NoCatalog, dist, "get_action_dist_cls_dict", enc)
        ELSE Outcome(Instance(obs, act, merged, vr, enc.ret, dist.value),
                     [kind |-> "Catalog"], "none", enc)

\* self.encoder_config.build(framework=framework)
build_encoder(self, framework) ==
    [kind |-> "Encoder", framework |-> framework, config |-> self.encoder_config]

\* self.action_dist_cls_dict[framework]
get_action_dist_cls(self, framework) ==
    IF framework \in DOMAIN self.action_dist_cls_dict
    THEN [kind |-> "return", cls |-> self.action_dist_cls_dict[framework]]
    ELSE Raise("KeyError", framework)

----------------------------------------------------------------------------
(* Inputs *)

ShapeOfRank(n) == [i \in 1..n |-> IF i = n THEN 4 ELSE 84]

Shapes == {ShapeOfRank(n) : n \in 0..MaxRank} \cup {<<8>>}

FloatDtypes == {"float16", "float32", "float64"}
IntDtypes == {"int8", "int32", "int64", "uint8"}

ObsSpaces ==
    {Box(s, "float32") : s \in Shapes}
        \cup {Space("Tuple"), Space("Dict"), Space("Discrete")}

ActSpaces ==
    {Box(s, d) : s \in Shapes, d \in FloatDtypes \cup IntDtypes}
        \cup {Space(k) : k \in {"Discrete", "MultiDiscrete", "Tuple", "Dict",
                                "Simplex", "Text"}}

CatalogActSpaces ==
    {a \in ActSpaces : a.dtype \in {"float32", "int32", "none"} /\ Len(a.shape) <= 2}

Frameworks == {"torch", "tf", "jax"}

HiddenWidth(i) == 128 \div (2 ^ i)

Hiddens == {[i \in 1..n |-> HiddenWidth(i)] : n \in 0..MaxHiddens}

SuppliedFilters == << <<32, <<3, 3>>, 1>> >>

\* a key the caller may leave out, or set to one of vals
Opt(key, vals) == {<<>>} \cup {key :> v : v \in vals}

ModelConfigs ==
    { l @@ a @@ h @@ e @@ c @@ s @@ t @@ f :
        l \in Opt("use_lstm", BOOLEAN),
        a \in Opt("use_attention", BOOLEAN),
        h \in Opt("fcnet_hiddens", Hiddens),
        e \in Opt("encoder_latent_dim", {None, Some(16)}),
        c \in Opt("conv_filters", {Some(SuppliedFilters)}),
        s \in Opt("lstm_cell_size", {128}),
        t \in Opt("_time_major", {TRUE}),
        f \in Opt("fcnet_activation", {"relu"}) }

CatalogConfigs ==
    { m \in ModelConfigs :
        /\ DOMAIN m \cap {"lstm_cell_size", "_time_major", "fcnet_activation"} = {}
        /\ \A k \in DOMAIN m \cap {"use_lstm", "use_attention"} : m[k]
        /\ "encoder_latent_dim" \in DOMAIN m => m["encoder_latent_dim"] # None }

----------------------------------------------------------------------------
(* State machine *)

NoCall == [op |-> "none", out |-> [kind |-> "none"], raised_in |-> "none"]

NoTokenizer == [depth |-> 0, passed |-> <<>>, out |-> [kind |-> "none"]]

InitState ==
    /\ MODEL_DEFAULTS = DefaultsTable
    /\ catalog = NoCatalog
    /\ ret = NoCall
    /\ tokenizer = NoTokenizer

\* A caller holding spaces and a config dict, about to use the Catalog class.
Init ==
    /\ InitState
    /\ observation_space \in ObsSpaces
    /\ action_space \in CatalogActSpaces
    /\ model_config_dict \in CatalogConfigs
    /\ view_requirements = None
    /\ deterministic = FALSE

\* A caller of the encoder and tokenizer resolvers alone.
InitResolver ==
    /\ InitState
    /\ observation_space \in ObsSpaces
    /\ action_space = NoneSpace
    /\ model_config_dict \in ModelConfigs
    /\ view_requirements \in {None, Some("view_requirements")}
    /\ deterministic = FALSE

\* A caller of the action distribution resolver alone.
InitDist ==
    /\ InitState
    /\ observation_space = NoneSpace
    /\ action_space \in ActSpaces
    /\ model_config_dict = <<>>
    /\ view_requirements = None
    /\ deterministic \in BOOLEAN

Inputs == <<observation_space, action_space, view_requirements, deterministic>>

\* Catalog.get_encoder_config(observation_space, model_config_dict, ...)
GetEncoderConfig ==
    LET r == get_encoder_config(observation_space, model_config_dict,
                                action_space, view_requirements)
    IN  /\ ret' = [op |-> "get_encoder_config", out |-> r.ret,
                   raised_in |-> IF Raised(r.ret) THEN "get_encoder_config" ELSE "none"]
        /\ model_config_dict' = r.arg
        /\ MODEL_DEFAULTS' = r.defaults
        /\ UNCHANGED <<Inputs, catalog, tokenizer>>

\* Catalog.get_tokenizer_config(observation_space, model_config_dict): called
\* for the tokenizer of an LSTM encoder config, and again for the tokenizer of
\* its result should that result itself be an LSTM encoder config.
GetTokenizerConfig ==
    /\ \/ tokenizer.depth = 0
       \/ /\ tokenizer.out.kind = "LSTMEncoderConfig"
          /\ tokenizer.depth < MaxDepth
    /\ LET r == get_tokenizer_config(observation_space, model_config_dict)
       IN  /\ tokenizer' = [depth |-> tokenizer.depth + 1, passed |-> r.passed,
                            out |-> r.ret]
           /\ ret' = [op |-> "get_tokenizer_config", out |-> r.ret,
                      raised_in |-> IF Raised(r.ret) THEN "get_encoder_config"
                                    ELSE "none"]
           /\ model_config_dict' = r.arg
           /\ MODEL_DEFAULTS' = r.defaults
    /\ UNCHANGED <<Inputs, catalog>>

\* Catalog.get_action_dist_cls_dict(action_space, deterministic)
GetActionDistClsDict ==
    LET r == get_action_dist_cls_dict(action_space, deterministic)
    IN  /\ ret' = [op |-> "get_action_dist_cls_dict", out |-> r,
                   raised_in |-> IF Raised(r) THEN "get_action_dist_cls_dict"
                                 ELSE "none"]
        /\ UNCHANGED <<MODEL_DEFAULTS, model_config_dict, Inputs, catalog, tokenizer>>

\* Catalog(observation_space, action_space, model_config_dict, view_requirements)
Construct ==
    LET r == Catalog__init__(observation_space, action_space, model_config_dict,
                             view_requirements)
    IN  /\ catalog' = r.instance
        /\ ret' = [op |-> "__init__", out |-> r.out, raised_in |-> r.raised_in]
        /\ model_config_dict' = r.arg
        /\ MODEL_DEFAULTS' = r.defaults
        /\ UNCHANGED <<Inputs, tokenizer>>

\* catalog.build_encoder(framework)
BuildEncoder ==
    /\ catalog.kind = "Catalog"
    /\ \E framework \in Frameworks :
          ret' = [op |-> "build_encoder", out |-> build_encoder(catalog, framework),
                  raised_in |-> "none"]
    /\ UNCHANGED <<MODEL_DEFAULTS, model_config_dict, Inputs, catalog, tokenizer>>

\* catalog.get_action_dist_cls(framework)
GetActionDistCls ==
    /\ catalog.kind = "Catalog"
    /\ \E framework \in Frameworks :
          LET r == get_action_dist_cls(catalog, framework)
          IN  ret' = [op |-> "get_action_dist_cls", out |-> r,
                      raised_in |-> IF Raised(r) THEN "get_action_dist_cls"
                                    ELSE "none"]
    /\ UNCHANGED <<MODEL_DEFAULTS, model_config_dict, Inputs, catalog, tokenizer>>

Next ==
    \/ Construct
    \/ BuildEncoder
    \/ GetActionDistCls
    \/ GetEncoderConfig
    \/ GetTokenizerConfig
    \/ GetActionDistClsDict

NextResolver ==
    \/ GetEncoderConfig
    \/ GetTokenizerConfig

NextDist == GetActionDistClsDict

Spec == Init /\ [][Next]_vars

SpecResolver == InitResolver /\ [][NextResolver]_vars

SpecDist == InitDist /\ [][NextDist]_vars

----------------------------------------------------------------------------
(* Properties *)

\* the configuration in effect: the caller's dict over the defaults
Effective == Merge(MODEL_DEFAULTS, model_config_dict)

Flags == {"use_lstm", "use_attention"}

AttentionError == Raise("NotImplementedError", "")

ComplexSpaceError ==
    Raise("NotImplementedError", "No default config for complex spaces yet!")

\* C1: get_encoder_config applies its rules in order, first match wins: with
\* use_lstm true the result is an LSTM encoder config (hidden_dim and
\* output_dim = lstm_cell_size, batch_first = not _time_major, one layer),
\* also when use_attention is true; otherwise with use_attention true the
\* call fails with NotImplementedError whatever the observation space; the
\* observation space is classified only when both flags are false.
C1_FirstMatchWins ==
    ret.op = "get_encoder_config" =>
        /\ Effective["use_lstm"] =>
              /\ ret.out.kind = "LSTMEncoderConfig"
              /\ ret.out.hidden_dim = Effective["lstm_cell_size"]
              /\ ret.out.output_dim = Effective["lstm_cell_size"]
              /\ ret.out.batch_first = ~Effective["_time_major"]
              /\ ret.out.num_layers = 1
        /\ (~Effective["use_lstm"] /\ Effective["use_attention"]) =>
              ret.out = AttentionError
        /\ (ret.out.kind \in {"MLPEncoderConfig", "CNNEncoderConfig"}
                \/ ret.out = ComplexSpaceError) =>
              (~Effective["use_lstm"] /\ ~Effective["use_attention"])

\* C2: for a 1-D Box observation space with both flags false and a non-empty
\* fcnet_hiddens, the result is an MLP config with input_dim = shape[0];
\* with encoder_latent_dim set its hidden widths are fcnet_hiddens verbatim
\* and output_dim = encoder_latent_dim; with it unset the hidden widths
\* followed by output_dim make up fcnet_hiddens.
C2_LegacyLatentDim ==
    ( /\ ret.op = "get_encoder_config"
      /\ observation_space.kind = "Box"
      /\ Len(observation_space.shape) = 1
      /\ ~Effective["use_lstm"]
      /\ ~Effective["use_attention"]
      /\ Effective["fcnet_hiddens"] # <<>> ) =>
        /\ ret.out.kind = "MLPEncoderConfig"
        /\ ret.out.input_dim = observation_space.shape[1]
        /\ IF Effective["encoder_latent_dim"] # None
           THEN /\ ret.out.hidden_layer_dims = Effective["fcnet_hiddens"]
                /\ ret.out.output_dim = Effective["encoder_latent_dim"][1]
           ELSE Append(ret.out.hidden_layer_dims, ret.out.output_dim)
                    = Effective["fcnet_hiddens"]

C2_Witness ==
    /\ ret.op = "get_encoder_config"
    /\ observation_space = Box(<<8>>, "float32")
    /\ Effective["fcnet_hiddens"] = <<64, 32>>
    /\ Effective["encoder_latent_dim"] = None
    /\ ret.out.kind = "MLPEncoderConfig"
    /\ ret.out.hidden_layer_dims = <<64>>
    /\ ret.out.output_dim = 32

C4_RejectedActionSpaces ==
    ret.op = "get_action_dist_cls_dict" =>
        /\ (action_space.kind = "Box" /\ action_space.dtype \in IntDtypes) =>
               (Raised(ret.out) /\ ret.out.error = "ValueError")
        /\ ( /\ action_space.kind = "Box"
             /\ action_space.dtype \in FloatDtypes
             /\ Len(action_space.shape) > 1 ) =>
               (Raised(ret.out) /\ ret.out.error = "UnsupportedSpaceException")
        /\ action_space.kind \notin {"Box", "Discrete"} =>
               (Raised(ret.out) /\ ret.out.error = "NotImplementedError")

C4_Witness ==
    /\ ret.op = "get_action_dist_cls_dict"
    /\ action_space.kind = "Box"
    /\ action_space.dtype = "uint8"
    /\ Len(action_space.shape) > 1
    /\ deterministic
    /\ Raised(ret.out)
    /\ ret.out.error = "ValueError"

\* C5: for every constructed Catalog, latent_dim = encoder_config.output_dim
\* after construction and after any build_encoder and get_action_dist_cls
\* calls, which leave the Catalog's attributes unchanged.
C5_LatentDimConsistent ==
    /\ [](catalog.kind = "Catalog" =>
             catalog.latent_dim = catalog.encoder_config.output_dim)
    /\ [][ret'.op \in {"build_encoder", "get_action_dist_cls"} =>
              (catalog.kind = "Catalog" /\ catalog' = catalog)]_vars

C5_Witness ==
    /\ catalog.kind = "Catalog"
    /\ ret.op \in {"build_encoder", "get_action_dist_cls"}
    /\ catalog.encoder_config.kind = "LSTMEncoderConfig"
    /\ catalog.latent_dim = catalog.encoder_config.output_dim

\* C6: a Catalog constructed with a 3-D Box observation space, both flags
\* false and no conv_filters supplied has a CNN encoder config whose filter
\* specs are get_filter_config's output for the shape, and that derived
\* filter spec is visible under conv_filters in the Catalog's
\* model_config_dict.
C6_ConvFiltersWrittenBack ==
    ( /\ ret.op = "__init__"
      /\ catalog.kind = "Catalog"
      /\ observation_space.kind = "Box"
      /\ Len(observation_space.shape) = 3
      /\ ~Effective["use_lstm"]
      /\ ~Effective["use_attention"]
      /\ "conv_filters" \notin DOMAIN model_config_dict ) =>
        /\ catalog.encoder_config.kind = "CNNEncoderConfig"
        /\ catalog.encoder_config.filter_specifiers
               = get_filter_config(observation_space.shape)
        /\ catalog.model_config_dict["conv_filters"]
               = Some(get_filter_config(observation_space.shape))

\* C7: get_tokenizer_config passes get_encoder_config the caller's config with
\* use_lstm and use_attention forced to false and every other key preserved,
\* so the tokenizer resolution never yields an LSTM encoder config and never
\* fails in the attention branch, whatever the flags of the original
\* configuration, and get_encoder_config is entered through
\* get_tokenizer_config at most once.
C7_TokenizerTerminates ==
    tokenizer.depth >= 1 =>
        /\ DOMAIN tokenizer.passed = DOMAIN model_config_dict \cup Flags
        /\ \A k \in Flags : tokenizer.passed[k] = FALSE
        /\ \A k \in DOMAIN model_config_dict \ Flags :
               tokenizer.passed[k] = model_config_dict[k]
        /\ tokenizer.out.kind # "LSTMEncoderConfig"
        /\ tokenizer.out # AttentionError
        /\ tokenizer.depth <= 1

C7_Witness ==
    /\ tokenizer.depth = 1
    /\ "use_lstm" \in DOMAIN model_config_dict
    /\ model_config_dict["use_lstm"]
    /\ "use_attention" \in DOMAIN model_config_dict
    /\ model_config_dict["use_attention"]
    /\ "lstm_cell_size" \in DOMAIN tokenizer.passed
    /\ tokenizer.out.kind \in {"MLPEncoderConfig", "CNNEncoderConfig"}

\* a Tuple or Dict observation space, or a Box that is neither 1-D nor 3-D
UnsupportedObservationSpace ==
    \/ observation_space.kind \in {"Tuple", "Dict"}
    \/ /\ observation_space.kind = "Box"
       /\ Len(observation_space.shape) \notin {1, 3}

\* an action space for which no distribution family is defined
UnsupportedActionSpace ==
    \/ action_space.kind \notin {"Box", "Discrete"}
    \/ /\ action_space.kind = "Box"
       /\ \/ action_space.dtype \in IntDtypes
          \/ Len(action_space.shape) > 1

\* encoder_latent_dim unset and fcnet_hiddens empty in the effective config
NoLatentDim ==
    /\ Effective["encoder_latent_dim"] = None
    /\ Len(Effective["fcnet_hiddens"]) = 0

\* C8 as stated: an unsupported observation space makes get_encoder_config and
\* Catalog construction fail with NotImplementedError at the call itself; no
\* encoder config is returned for it.  Stated on the inputs for which a
\* latent dim can be derived; on the others the call fails with the
\* IndexError that also breaks C1.
C8_NestedAlwaysNotImplemented ==
    ( /\ ret.op \in {"get_encoder_config", "__init__"}
      /\ UnsupportedObservationSpace
      /\ ~NoLatentDim ) =>
        /\ Raised(ret.out)
        /\ ret.out.error = "NotImplementedError"
        /\ ret.raised_in = "get_encoder_config"

\* C8 as amended: with use_lstm false an unsupported observation space never
\* yields an encoder config or a Catalog: the call fails inside
\* get_encoder_config, with NotImplementedError, or with IndexError exactly
\* when no latent dim can be derived; with use_lstm true the observation
\* space is not classified and get_encoder_config returns an LSTM encoder
\* config unless no latent dim can be derived.
C8_NestedNotImplementedUnlessLstm ==
    (ret.op \in {"get_encoder_config", "__init__"} /\ UnsupportedObservationSpace) =>
        /\ ~Effective["use_lstm"] =>
              /\ Raised(ret.out)
              /\ ret.raised_in = "get_encoder_config"
              /\ ret.out.error = (IF NoLatentDim THEN "IndexError"
                                  ELSE "NotImplementedError")
              /\ ret.op = "__init__" => catalog = NoCatalog
        /\ (Effective["use_lstm"] /\ ~NoLatentDim /\ ret.op = "get_encoder_config") =>
              ret.out.kind = "LSTMEncoderConfig"

C8_Witness ==
    /\ ret.op = "__init__"
    /\ observation_space.kind = "Box"
    /\ Len(observation_space.shape) > 3
    /\ ~Effective["use_lstm"]
    /\ ret.out = ComplexSpaceError
    /\ catalog = NoCatalog

\* what the two resolvers yield for the caller's inputs
EncoderResolution ==
    get_encoder_config(observation_space, model_config_dict, action_space,
                       view_requirements).ret

DistResolution == get_action_dist_cls_dict(action_space, FALSE)

\* construction either yields a fully set Catalog or raises the error of the
\* resolver that failed and yields no Catalog
AllOrNothing ==
    \/ /\ ret.out.kind = "Catalog"
       /\ catalog.kind = "Catalog"
       /\ catalog.encoder_config = EncoderResolution
       /\ catalog.action_dist_cls_dict = DistResolution.value
       /\ catalog.latent_dim = catalog.encoder_config.output_dim
       /\ catalog.model_config_dict = Effective
    \/ /\ Raised(ret.out)
       /\ catalog = NoCatalog
       /\ \/ ret.raised_in = "get_encoder_config" /\ ret.out = EncoderResolution
          \/ ret.raised_in = "get_action_dist_cls_dict" /\ ret.out = DistResolution

\* C9 as stated: construction is all-or-nothing, and when both the observation
\* space and the action space are unsupported the error raised is the encoder
\* resolver's.
C9_AllOrNothingEncoderFirst ==
    ret.op = "__init__" =>
        /\ AllOrNothing
        /\ (UnsupportedObservationSpace /\ UnsupportedActionSpace) =>
               ret.raised_in = "get_encoder_config"

\* C9 as amended: construction is all-or-nothing, and when both the encoder
\* resolution and the action distribution resolution fail for the inputs the
\* error raised is the encoder resolver's; an unsupported observation space
\* with use_lstm true does not make the encoder resolution fail, and then the
\* action distribution resolver's error is raised.
C9_AllOrNothingFirstFailure ==
    ret.op = "__init__" =>
        /\ AllOrNothing
        /\ (Raised(EncoderResolution) /\ Raised(DistResolution)) =>
               ret.raised_in = "get_encoder_config"
        /\ (~Raised(EncoderResolution) /\ UnsupportedActionSpace) =>
               ret.raised_in = "get_action_dist_cls_dict"

C9_Witness ==
    /\ ret.op = "__init__"
    /\ UnsupportedObservationSpace
    /\ UnsupportedActionSpace
    /\ ~Effective["use_lstm"]
    /\ ret.raised_in = "get_encoder_config"
    /\ catalog = NoCatalog

\* C10: no construction and no resolver call changes the defaults table or the
\* caller's own model_config_dict, the 3-D Box path that derives conv_filters
\* included.
C10_DefaultsAndCallerDictUntouched ==
    [][MODEL_DEFAULTS' = MODEL_DEFAULTS /\ model_config_dict' = model_config_dict]_vars

C10_Witness ==
    /\ ret.op = "__init__"
    /\ catalog.kind = "Catalog"
    /\ catalog.encoder_config.kind = "CNNEncoderConfig"
    /\ catalog.encoder_config.filter_specifiers
           = get_filter_config(observation_space.shape)
    /\ "conv_filters" \notin DOMAIN model_config_dict
    /\ MODEL_DEFAULTS["conv_filters"] = None

====
